---- MODULE Spec2Model ----
(***************************************************************************)
(* Model of update_paw.py: the incremental Scopus fetch (window planning,  *)
(* day-by-day search with the PUBYEAR fallback) and the merge of fetched   *)
(* records into the spreadsheet store.                                     *)
(*                                                                         *)
(* Dates are proleptic Gregorian ordinals (datetime.date.toordinal()).     *)
(* Timestamps (pandas Timestamp) count half days: 2 * ordinal is midnight. *)
(* Strings are sequences of one-character strings, so that str.strip() is  *)
(* computed and not assumed.                                               *)
(***************************************************************************)
EXTENDS Integers, Sequences, FiniteSets, TLC

VARIABLES
    pc,           \* position of the run in main()
    cred,         \* SCOPUS_API_KEY is set and non-blank
    fileExists,   \* database.xlsx exists
    disk,         \* the persisted store (database.xlsx)
    df,           \* the store as loaded by load_db()
    today,        \* main: today
    last,         \* main: last
    start,        \* main: start
    end,          \* main: end
    d,            \* scopus_daily_search: the bucket day of the loop
    fb,           \* scopus_daily_search: index into fallback_years (0: not in fallback)
    all_results,  \* scopus_daily_search: all_results
    queries,      \* history: every ScopusSearch call made, with its outcome
    results,      \* main: results (NotYet until scopus_daily_search returns)
    updated,      \* main: updated
    added,        \* main: added
    saves,        \* history: number of save_db calls of the run
    runs,         \* history: number of merges done
    prevOut,      \* history: the store returned by the previous merge
    prevEnd       \* history: the window end of the previous run of main

vars == <<pc, cred, fileExists, disk, df, today, last, start, end, d, fb,
          all_results, queries, results, updated, added, saves, runs, prevOut, prevEnd>>

----------------------------------------------------------------------------
(* Bounds of the model *)

MaxStore == 2      \* rows of an input store
MaxFetch == 2      \* records of a fetch result handed to the merge
TodayBase == 730118 \* first value of today: 1999-12-30
TodaySpan == 2     \* today ranges over TodayBase .. TodayBase + TodaySpan
MaxFallbacks == 1  \* buckets of one fetch that may enter the fallback
MaxRuns == 2       \* merges, or runs of main, one after another
MaxGap == 3        \* days between one run of main and the next
MaxSkew == 3       \* stored timestamps lie within MaxSkew days of the values of today

(* Program constants *)

OVERLAP_DAYS == 2
FirstFallbackYear == 2000

----------------------------------------------------------------------------
(* Values *)

NA == <<"NaN">>        \* a missing cell (NaN / None / pd.NA) of a string column
None == <<"None">>     \* Python None as an attribute of a fetched record
NaT == -1              \* a missing timestamp
BadDate == -2          \* a cell that pd.to_datetime(errors="coerce") cannot parse
NotYet == [set |-> FALSE, list |-> <<>>]   \* main: results, before it is assigned
Assigned(list) == [set |-> TRUE, list |-> list]

Timestamp(day) == 2 * day          \* pd.Timestamp(date): midnight of that day
DateOf(ts) == ts \div 2            \* Timestamp.date()
ToDatetime(cell) == IF cell = BadDate THEN NaT ELSE cell

RECURSIVE LStrip(_)
LStrip(s) == IF s # <<>> /\ Head(s) = " " THEN LStrip(Tail(s)) ELSE s

RECURSIVE RStrip(_)
RStrip(s) == IF s # <<>> /\ s[Len(s)] = " " THEN RStrip(SubSeq(s, 1, Len(s) - 1)) ELSE s

Strip(s) == RStrip(LStrip(s))

OrEmpty(v) == IF v = None THEN <<>> ELSE v      \* (getattr(r, x, None) or "")

YearNA == [k |-> "na", v |-> 0]
YearStr(y) == [k |-> "str", v |-> y]            \* a year as text, e.g. "2000"
YearNum(y) == [k |-> "num", v |-> y]            \* a year as a spreadsheet number

----------------------------------------------------------------------------
(* The store and the merge: append_new_rows *)

\* A store is [hasDup, rows]: hasDup says whether the sheet has a
\* "Duplicate DOI" column; rows are records with the columns the code reads
\* or writes (EID, DOI_clean, Added_to_db, Year, Duplicate_DOI, PAW, Status).

existing_eids(store) ==
    { Strip(store.rows[i].EID) : i \in { j \in DOMAIN store.rows : store.rows[j].EID # NA } }

existing_dois(store) ==
    { Strip(store.rows[i].DOI_clean) :
        i \in { j \in DOMAIN store.rows : store.rows[j].DOI_clean # NA } }

RecEid(r) == Strip(OrEmpty(r.eid))
RecDoi(r) == Strip(OrEmpty(r.doi))

\* mutant: the DOI of a record is not looked up
Skips_eidOnly(r, eids, dois) ==
    \/ RecEid(r) = <<>>
    \/ RecEid(r) \in eids

\* the two `continue` tests of the loop body
Skips(r, eids, dois) ==
    \/ RecEid(r) = <<>>
    \/ RecEid(r) \in eids
    \/ (RecDoi(r) # <<>> /\ RecDoi(r) \in dois)

CoverYear(r) ==
    IF r.coverDate = None \/ r.coverDate = <<>> THEN YearNA ELSE YearStr(Head(r.coverDate))

\* mutant: the new row is not stamped
MakeRow_noDate(r, day) ==
    [ EID           |-> RecEid(r),
      DOI_clean     |-> IF RecDoi(r) # <<>> THEN RecDoi(r) ELSE NA,
      Added_to_db   |-> NaT,
      Year          |-> CoverYear(r),
      Duplicate_DOI |-> "NA",
      PAW           |-> "YES",
      Status        |-> "NEW" ]

MakeRow(r, day) ==
    [ EID           |-> RecEid(r),
      DOI_clean     |-> IF RecDoi(r) # <<>> THEN RecDoi(r) ELSE NA,
      Added_to_db   |-> Timestamp(day),
      Year          |-> CoverYear(r),
      Duplicate_DOI |-> "NA",
      PAW           |-> "YES",
      Status        |-> "NEW" ]

\* for r in results: ... new_rows.append(row).  existing_eids and
\* existing_dois are computed once, before the loop, and the loop never adds
\* to them.
RECURSIVE NewRows(_, _, _, _)
NewRows(rs, eids, dois, day) ==
    IF rs = <<>> THEN <<>>
    ELSE IF Skips(Head(rs), eids, dois)
         THEN NewRows(Tail(rs), eids, dois, day)
         ELSE <<MakeRow(Head(rs), day)>> \o NewRows(Tail(rs), eids, dois, day)

ValidDoi(cell) == cell # NA /\ Len(cell) > 0

IsDup(rows, i) ==
    /\ ValidDoi(rows[i].DOI_clean)
    /\ \E j \in DOMAIN rows : j # i /\ rows[j].DOI_clean = rows[i].DOI_clean

\* mutant: no row is flagged
MarkNone(store) == store

MarkDuplicates(store) ==
    IF store.hasDup
    THEN [store EXCEPT !.rows =
            [i \in DOMAIN store.rows |->
                IF IsDup(store.rows, i)
                THEN [store.rows[i] EXCEPT !.Duplicate_DOI = "YES"]
                ELSE store.rows[i]]]
    ELSE store

\* sort_values(by=[Added_to_db, Year], ascending=[False, False],
\* na_position="last"): a stable sort; numbers order before text in a mixed
\* column.
YearRank(y) == IF y.k = "num" THEN 0 ELSE 1

YearGreater(a, b) ==
    /\ a.k # "na"
    /\ \/ b.k = "na"
       \/ YearRank(a) > YearRank(b)
       \/ (YearRank(a) = YearRank(b) /\ a.v > b.v)

AddedGreater(a, b) == a # NaT /\ (b = NaT \/ a > b)

\* mutant: sort_values(by=[Added_to_db]) only
Before_dateOnly(x, y) == AddedGreater(x.Added_to_db, y.Added_to_db)

Before(x, y) ==
    \/ AddedGreater(x.Added_to_db, y.Added_to_db)
    \/ (x.Added_to_db = y.Added_to_db /\ YearGreater(x.Year, y.Year))

RECURSIVE Insert(_, _)
Insert(sorted, x) ==
    IF sorted = <<>> THEN <<x>>
    ELSE IF Before(x, Head(sorted)) THEN <<x>> \o sorted
         ELSE <<Head(sorted)>> \o Insert(Tail(sorted), x)

RECURSIVE SortRows(_)
SortRows(rows) ==
    IF rows = <<>> THEN <<>>
    ELSE Insert(SortRows(SubSeq(rows, 1, Len(rows) - 1)), rows[Len(rows)])

\* mutant: a cell that holds no timestamp is filled with the newest one
CoerceDates_fill(rows) ==
    LET stamps == { ToDatetime(rows[i].Added_to_db) : i \in DOMAIN rows }
        newest == CHOOSE m \in stamps : \A t \in stamps : t <= m
    IN  [i \in DOMAIN rows |->
            [rows[i] EXCEPT !.Added_to_db = IF ToDatetime(@) = NaT THEN newest ELSE @]]

CoerceDates(rows) ==
    [i \in DOMAIN rows |-> [rows[i] EXCEPT !.Added_to_db = ToDatetime(@)]]

\* mutant: no early return when nothing is new
append_new_rows_always(store, rs, day) ==
    LET new_rows == NewRows(rs, existing_eids(store), existing_dois(store), day)
        out == [store EXCEPT !.rows = store.rows \o new_rows]
        marked == MarkDuplicates(out)
    IN  [marked EXCEPT !.rows = SortRows(CoerceDates(marked.rows))]

append_new_rows(store, rs, day) ==
    LET new_rows == NewRows(rs, existing_eids(store), existing_dois(store), day)
        out == [store EXCEPT !.rows = store.rows \o new_rows]
        marked == MarkDuplicates(out)
    IN  IF new_rows = <<>> THEN store
        ELSE [marked EXCEPT !.rows = SortRows(CoerceDates(marked.rows))]

----------------------------------------------------------------------------
(* Dates and the window: get_last_added_date and main *)

\* date.year of an ordinal (the proleptic Gregorian calendar of datetime.date)
YearOf(ordinal) ==
    LET n0   == ordinal - 1
        n400 == n0 \div 146097
        r400 == n0 % 146097
        n100 == r400 \div 36524
        r100 == r400 % 36524
        n4   == r100 \div 1461
        r4   == r100 % 1461
        n1   == r4 \div 365
        y    == n400 * 400 + n100 * 100 + n4 * 4 + n1 + 1
    IN  IF n1 = 4 \/ n100 = 4 THEN y - 1 ELSE y

NoDate == NaT      \* get_last_added_date returned None

SetMax(S) == CHOOSE m \in S : \A x \in S : x <= m

\* mutant: the earliest timestamp instead of the latest
SetMin(S) == CHOOSE m \in S : \A x \in S : m <= x

get_last_added_date_min(store) ==
    LET s == { ToDatetime(store.rows[i].Added_to_db) : i \in DOMAIN store.rows } \ {NaT}
    IN  IF s # {} THEN DateOf(SetMin(s)) ELSE NoDate

get_last_added_date(store) ==
    LET s == { ToDatetime(store.rows[i].Added_to_db) : i \in DOMAIN store.rows } \ {NaT}
    IN  IF s # {} THEN DateOf(SetMax(s)) ELSE NoDate

\* mutant: the first-run start for every store
WindowStart_first(lastDate, day) == day - 1

\* mutant: no overlap
WindowStart_noOverlap(lastDate, day) ==
    IF lastDate = NoDate THEN day - 1 ELSE lastDate

WindowStart(lastDate, day) ==
    IF lastDate = NoDate THEN day - 1 ELSE lastDate - OVERLAP_DAYS

WindowEnd(day) == day + 1

\* mutant: range(2000, end_date.year + 1)
fallback_years_short(end_date) ==
    [i \in 1 .. (IF YearOf(end_date) + 1 > FirstFallbackYear
                 THEN YearOf(end_date) + 1 - FirstFallbackYear ELSE 0)
       |-> FirstFallbackYear + i - 1]

\* fallback_years = list(range(2000, end_date.year + 2))
fallback_years(end_date) ==
    [i \in 1 .. (IF YearOf(end_date) + 2 > FirstFallbackYear
                 THEN YearOf(end_date) + 2 - FirstFallbackYear ELSE 0)
       |-> FirstFallbackYear + i - 1]

----------------------------------------------------------------------------
(* The search collaborator: what one ScopusSearch call can do *)

RecA == [eid |-> <<"c">>, doi |-> <<"z">>, coverDate |-> <<2000, 12, 1>>]
RecB == [eid |-> <<"d">>, doi |-> None, coverDate |-> None]

\* s.results: None (or empty) when nothing matched, both falsy and both
\* written <<>> here; else a non-empty list
Responses == {<<>>, <<RecA, RecB>>}

\* An exception raised by ScopusSearch: its class, and whether its message
\* contains "exceeds the maximum number".  "Other" is any class that is
\* neither Scopus400Error nor ScopusQueryError (a 5xx, a connection error).
Exceptions == [type : {"Scopus400Error", "ScopusQueryError", "Other"}, capMsg : BOOLEAN]

Caught(e) == e.type \in {"Scopus400Error", "ScopusQueryError"}

\* mutant: every caught exception starts the fallback
EntersFallback_caught(e) == Caught(e)

EntersFallback(e) == Caught(e) /\ (e.capMsg \/ e.type = "Scopus400Error")

\* mutant: a record already in the list is not added again
Extend_unique(list, res) ==
    list \o SelectSeq(res, LAMBDA r : \A i \in DOMAIN list : list[i] # r)

Extend(list, res) == IF res = <<>> THEN list ELSE list \o res

\* datetime(d.year, d.month, d.day, tzinfo=utc).timestamp(): seconds from
\* 1970-01-01 (day 719163) to the midnight that begins day d
unix_seconds(day) == (day - 719163) * 86400

\* the ORIG-LOAD-DATE bounds of the query text: AFT aft AND BEF bef
build_query(day_start, day_end) ==
    [aft |-> unix_seconds(day_start), bef |-> unix_seconds(day_end)]

CapCount(log) == Cardinality({ i \in DOMAIN log : log[i].outcome = "fallback" })

----------------------------------------------------------------------------
(* The run: main *)

EmptyStore == [hasDup |-> FALSE, rows |-> <<>>]

\* init_pybliometrics: raises when SCOPUS_API_KEY is missing or blank
InitPybliometrics ==
    /\ pc = "start"
    /\ pc' = IF cred THEN "load" ELSE "aborted"
    /\ UNCHANGED <<cred, fileExists, disk, df, today, last, start, end, d, fb,
                   all_results, queries, results, updated, added, saves, runs, prevOut, prevEnd>>

\* load_db: raises FileNotFoundError when the file is absent
LoadDb ==
    /\ pc = "load"
    /\ IF fileExists
       THEN df' = disk /\ pc' = "plan"
       ELSE df' = df /\ pc' = "aborted"
    /\ UNCHANGED <<cred, fileExists, disk, today, last, start, end, d, fb,
                   all_results, queries, results, updated, added, saves, runs, prevOut, prevEnd>>

\* main: last, start, end
PlanWindow ==
    /\ pc = "plan"
    /\ last' = get_last_added_date(df)
    /\ start' = WindowStart(last', today)
    /\ end' = WindowEnd(today)
    /\ pc' = "search"
    /\ UNCHANGED <<cred, fileExists, disk, df, today, d, fb,
                   all_results, queries, results, updated, added, saves, runs, prevOut, prevEnd>>

\* scopus_daily_search: entry, up to the first test of the loop
SearchBegin ==
    /\ pc = "search"
    /\ all_results' = <<>>
    /\ d' = start
    /\ fb' = 0
    /\ pc' = "bucket"
    /\ UNCHANGED <<cred, fileExists, disk, df, today, last, start, end,
                   queries, results, updated, added, saves, runs, prevOut, prevEnd>>

\* q is q_base = build_query(d, d + timedelta(days=1)); a sub-query adds
\* "AND PUBYEAR = year" to it
Logged(day, year, outcome, e, res) ==
    [day |-> day, year |-> year, outcome |-> outcome, exc |-> e, res |-> res,
     q |-> build_query(day, day + 1)]

NoExc == [type |-> "none", capMsg |-> FALSE]

\* `except Exception` does not look at the class: the history keeps only
\* whether the message of a failed sub-query reports too many results
AnyClass(e) == [type |-> "Exception", capMsg |-> e.capMsg]

\* after the last sub-query of a bucket the outer loop moves to the next day
NextFb(k, years) == IF k < Len(years) THEN k + 1 ELSE 0
NextDay(k, years, day) == IF k < Len(years) THEN day ELSE day + 1

\* the top-level query of bucket d returns
TopOk ==
    /\ pc = "bucket" /\ fb = 0 /\ d < end
    /\ \E res \in Responses :
         /\ all_results' = Extend(all_results, res)
         /\ queries' = Append(queries, Logged(d, 0, "ok", NoExc, res))
    /\ d' = d + 1
    /\ UNCHANGED <<pc, cred, fileExists, disk, df, today, last, start, end, fb,
                   results, updated, added, saves, runs, prevOut, prevEnd>>

\* the top-level query of bucket d raises
TopRaise ==
    /\ pc = "bucket" /\ fb = 0 /\ d < end
    /\ \E e \in Exceptions :
         IF EntersFallback(e)
         THEN /\ CapCount(queries) < MaxFallbacks
              /\ queries' = Append(queries, Logged(d, 0, "fallback", e, <<>>))
              /\ fb' = NextFb(0, fallback_years(end))
              /\ d' = NextDay(0, fallback_years(end), d)
              /\ pc' = pc
         ELSE /\ queries' = Append(queries, Logged(d, 0, "fatal", e, <<>>))
              /\ fb' = fb
              /\ d' = d
              /\ pc' = "aborted"
    /\ UNCHANGED <<cred, fileExists, disk, df, today, last, start, end,
                   all_results, results, updated, added, saves, runs, prevOut, prevEnd>>

\* the sub-query for fallback_years[fb] returns
SubOk ==
    /\ pc = "bucket" /\ fb >= 1
    /\ \E res \in Responses :
         /\ all_results' = Extend(all_results, res)
         /\ queries' = Append(queries, Logged(d, fallback_years(end)[fb], "ok", NoExc, res))
    /\ fb' = NextFb(fb, fallback_years(end))
    /\ d' = NextDay(fb, fallback_years(end), d)
    /\ UNCHANGED <<pc, cred, fileExists, disk, df, today, last, start, end,
                   results, updated, added, saves, runs, prevOut, prevEnd>>

\* mutant: the exception of a sub-query is not caught
SubRaise_aborts ==
    /\ pc = "bucket" /\ fb >= 1
    /\ \E e \in Exceptions :
         queries' = Append(queries, Logged(d, fallback_years(end)[fb], "err", AnyClass(e), <<>>))
    /\ pc' = "aborted"
    /\ UNCHANGED <<cred, fileExists, disk, df, today, last, start, end, d, fb,
                   all_results, results, updated, added, saves, runs, prevOut, prevEnd>>

\* the sub-query for fallback_years[fb] raises: except Exception, print
SubRaise ==
    /\ pc = "bucket" /\ fb >= 1
    /\ \E e \in Exceptions :
         queries' = Append(queries, Logged(d, fallback_years(end)[fb], "err", AnyClass(e), <<>>))
    /\ fb' = NextFb(fb, fallback_years(end))
    /\ d' = NextDay(fb, fallback_years(end), d)
    /\ UNCHANGED <<pc, cred, fileExists, disk, df, today, last, start, end,
                   all_results, results, updated, added, saves, runs, prevOut, prevEnd>>

\* the loop over the days is over: return all_results
SearchReturn ==
    /\ pc = "bucket" /\ fb = 0 /\ d >= end
    /\ results' = Assigned(all_results)
    /\ pc' = "merge"
    /\ UNCHANGED <<cred, fileExists, disk, df, today, last, start, end, d, fb,
                   all_results, queries, updated, added, saves, runs, prevOut, prevEnd>>

\* main: updated = append_new_rows(df, results, today); added = ...
Merge ==
    /\ pc = "merge"
    /\ updated' = append_new_rows(df, results.list, today)
    /\ added' = Len(updated'.rows) - Len(df.rows)
    /\ runs' = runs + 1
    /\ prevOut' = updated
    /\ pc' = "save"
    /\ UNCHANGED <<cred, fileExists, disk, df, today, last, start, end, d, fb,
                   all_results, queries, results, saves, prevEnd>>

\* mutant: the store is also saved when the run aborts
SaveDb_onAbort ==
    /\ pc \in {"save", "aborted"}
    /\ saves = 0
    /\ disk' = updated
    /\ saves' = saves + 1
    /\ pc' = IF pc = "save" THEN "done" ELSE pc
    /\ UNCHANGED <<cred, fileExists, df, today, last, start, end, d, fb,
                   all_results, queries, results, updated, added, runs, prevOut, prevEnd>>

\* save_db(updated)
SaveDb ==
    /\ pc = "save"
    /\ disk' = updated
    /\ saves' = saves + 1
    /\ pc' = "done"
    /\ UNCHANGED <<cred, fileExists, df, today, last, start, end, d, fb,
                   all_results, queries, results, updated, added, runs, prevOut, prevEnd>>

\* the same fetch result arrives again for the store just returned
Rerun ==
    /\ pc = "save"
    /\ runs < MaxRuns
    /\ df' = updated
    /\ pc' = "merge"
    /\ UNCHANGED <<cred, fileExists, disk, today, last, start, end, d, fb,
                   all_results, queries, results, updated, added, saves, runs, prevOut, prevEnd>>

\* the program is started again, the same day or up to MaxGap days later,
\* and finds the file the previous run saved
NextRun ==
    /\ pc = "done"
    /\ runs < MaxRuns
    /\ \E gap \in 0 .. MaxGap : today' = today + gap
    /\ prevEnd' = end
    /\ pc' = "start"
    /\ df' = EmptyStore
    /\ results' = NotYet
    /\ last' = NoDate /\ start' = NoDate /\ end' = NoDate /\ d' = NoDate /\ fb' = 0
    /\ all_results' = <<>> /\ queries' = <<>>
    /\ updated' = EmptyStore /\ added' = 0 /\ saves' = 0
    /\ UNCHANGED <<cred, fileExists, disk, runs, prevOut>>

----------------------------------------------------------------------------
(* Inputs *)

Todays == TodayBase .. TodayBase + TodaySpan

SeqsUpTo(S, n) == UNION { [1 .. k -> S] : k \in 0 .. n }

OldRow(eid, doi, addedCell, flag) ==
    [ EID |-> eid, DOI_clean |-> doi, Added_to_db |-> addedCell, Year |-> YearNum(1999),
      Duplicate_DOI |-> flag, PAW |-> "NO", Status |-> "OLD" ]

\* stores handed to the merge
EidCells == {NA, <<"a", " ">>, <<"b">>}
DoiCells == {NA, <<"x">>}

\* a store with the 'Duplicate DOI' column may hold flagged rows with a DOI
MergeRows(hasDup) ==
    { OldRow(e, x, NaT, "NA") : e \in EidCells, x \in DoiCells }
    \cup (IF hasDup THEN { OldRow(e, x, NaT, "YES") : e \in EidCells, x \in DoiCells \ {NA} }
          ELSE {})

MergeStores ==
    UNION { { [hasDup |-> h, rows |-> rows] : rows \in SeqsUpTo(MergeRows(h), MaxStore) } :
            h \in BOOLEAN }

\* records handed to the merge
FetchRecords ==
    { [eid |-> None,           doi |-> <<"z">>,      coverDate |-> None],
      [eid |-> <<"a">>,        doi |-> None,         coverDate |-> None],
      [eid |-> <<" ", "c">>,   doi |-> <<"z", " ">>, coverDate |-> <<2000, 12, 1>>],
      [eid |-> <<"d">>,        doi |-> <<"z">>,      coverDate |-> <<2000, 12, 1>>],
      [eid |-> <<"c">>,        doi |-> None,         coverDate |-> <<>>],
      [eid |-> <<"d">>,        doi |-> <<"x">>,      coverDate |-> None] }

\* stores with ingestion timestamps around today
PlanCells ==
    {NaT, BadDate} \cup
    { Timestamp(TodayBase + k) + h : k \in (0 - MaxSkew) .. (TodaySpan + MaxSkew), h \in {0, 1} }

PlanStores ==
    { [hasDup |-> FALSE, rows |-> rows] :
        rows \in SeqsUpTo({ OldRow(NA, NA, c, "NA") : c \in PlanCells }, MaxStore) }

\* stores on disk when a whole run starts: empty, one row without ingestion
\* timestamp, or one row ingested earlier on the day of the run
RunStores(day) ==
    { [hasDup |-> TRUE, rows |-> rows] :
        rows \in SeqsUpTo({ OldRow(<<"a">>, <<"x">>, c, "NA") :
                              c \in {NaT, Timestamp(day) + 1} }, 1) }

Unset ==
    /\ last = NoDate /\ start = NoDate /\ end = NoDate /\ d = NoDate /\ fb = 0
    /\ all_results = <<>> /\ queries = <<>>
    /\ updated = EmptyStore /\ added = 0 /\ saves = 0 /\ runs = 0 /\ prevOut = EmptyStore
    /\ prevEnd = NoDate

\* a whole run of main
Init ==
    /\ pc = "start"
    /\ cred \in BOOLEAN
    /\ fileExists \in BOOLEAN
    /\ today \in Todays
    /\ disk \in RunStores(today)
    /\ df = EmptyStore
    /\ results = NotYet
    /\ Unset

Next ==
    \/ InitPybliometrics
    \/ LoadDb
    \/ PlanWindow
    \/ SearchBegin
    \/ TopOk
    \/ TopRaise
    \/ SubOk
    \/ SubRaise
    \/ SearchReturn
    \/ Merge
    \/ SaveDb

Spec == Init /\ [][Next]_vars

\* the window planner alone, on any store
InitPlan ==
    /\ pc = "plan"
    /\ cred = TRUE /\ fileExists = TRUE
    /\ today \in Todays
    /\ df \in PlanStores
    /\ disk = df
    /\ results = NotYet
    /\ Unset

NextPlan == PlanWindow

SpecPlan == InitPlan /\ [][NextPlan]_vars

\* the merge alone, on any store and any fetch result, run and run again
InitMerge ==
    /\ pc = "merge"
    /\ cred = TRUE /\ fileExists = TRUE
    /\ today = TodayBase
    /\ df \in MergeStores
    /\ disk = df
    /\ results \in { Assigned(rs) : rs \in SeqsUpTo(FetchRecords, MaxFetch) }
    /\ Unset

NextMerge == Merge \/ Rerun

SpecMerge == InitMerge /\ [][NextMerge]_vars

\* successive runs of main that complete, on stores with no timestamp, an
\* old one and future ones
RunsCells == { NaT, Timestamp(TodayBase - 1), Timestamp(TodayBase + 3), Timestamp(TodayBase + 4) }

RunsStores ==
    { [hasDup |-> TRUE, rows |-> rows] :
        rows \in SeqsUpTo({ OldRow(<<"a">>, <<"x">>, c, "NA") : c \in RunsCells }, 1) }

InitRuns ==
    /\ pc = "start"
    /\ cred = TRUE /\ fileExists = TRUE
    /\ today = TodayBase
    /\ disk \in RunsStores
    /\ df = EmptyStore
    /\ results = NotYet
    /\ Unset

NextRuns ==
    \/ InitPybliometrics
    \/ LoadDb
    \/ PlanWindow
    \/ SearchBegin
    \/ TopOk
    \/ SearchReturn
    \/ Merge
    \/ SaveDb
    \/ NextRun

SpecRuns == InitRuns /\ [][NextRuns]_vars

\* stores with ingestion timestamps and years in any order, for the ordering
\* and the frame of the merge
OrderCells ==
    { NaT, BadDate, Timestamp(TodayBase - 1), Timestamp(TodayBase),
      Timestamp(TodayBase) + 1, Timestamp(TodayBase + 1) }

YearCells == { YearNA, YearNum(2001), YearStr(1999) }

OrderRows ==
    { [OldRow(<<"a">>, NA, c, "NA") EXCEPT !.Year = y] : c \in OrderCells, y \in YearCells }
    \cup { [OldRow(<<"b", " ">>, <<"x">>, c, "NA") EXCEPT !.Year = YearNum(2001)] :
               c \in {BadDate, Timestamp(TodayBase)} }

OrderStores ==
    { [hasDup |-> FALSE, rows |-> rows] : rows \in SeqsUpTo(OrderRows, MaxStore) }

OrderRecords ==
    { [eid |-> <<"a">>, doi |-> None, coverDate |-> None],
      [eid |-> <<"c", " ">>, doi |-> None, coverDate |-> <<2000, 12, 1>>],
      [eid |-> <<"d">>, doi |-> None, coverDate |-> None] }

InitOrder ==
    /\ pc = "merge"
    /\ cred = TRUE /\ fileExists = TRUE
    /\ today = TodayBase
    /\ df \in OrderStores
    /\ disk = df
    /\ results \in { Assigned(rs) : rs \in SeqsUpTo(OrderRecords, MaxFetch) }
    /\ Unset

NextOrder == Merge

SpecOrder == InitOrder /\ [][NextOrder]_vars

----------------------------------------------------------------------------
(* Properties of the merge, under SpecMerge.  In SpecMerge disk keeps the   *)
(* store the first merge was given.                                         *)

HasEid(row) == row.EID # NA /\ Strip(row.EID) # <<>>

\* no two distinct rows share a non-empty primary identifier
DistinctEids(store) ==
    \A i, j \in DOMAIN store.rows :
        (i # j /\ HasEid(store.rows[i]) /\ HasEid(store.rows[j]))
            => Strip(store.rows[i].EID) # Strip(store.rows[j].EID)

CountEid(store, e) ==
    Cardinality({ i \in DOMAIN store.rows :
                    store.rows[i].EID # NA /\ Strip(store.rows[i].EID) = e })

CountDoi(store, x) ==
    Cardinality({ i \in DOMAIN store.rows :
                    store.rows[i].DOI_clean # NA /\ Strip(store.rows[i].DOI_clean) = x })

Merged == pc = "save"

\* C1: after a merge on a store whose non-empty EIDs are pairwise distinct,
\* whatever the fetched records are, no two rows of the result share a
\* non-empty EID.
C1_NoDuplicateEids ==
    (Merged /\ runs = 1 /\ DistinctEids(df)) => DistinctEids(updated)

\* C2: merging the same fetched records a second time into the result of the
\* first merge returns exactly that result and adds no row, and the store has
\* no duplicate rows (no two rows for the same EID) when the first input had
\* none.
C2_RerunIdempotent ==
    (Merged /\ runs = 2 /\ DistinctEids(disk)) =>
        (updated = prevOut /\ updated = df /\ added = 0 /\ DistinctEids(updated))

\* C3: of two fetched records of one run that carry the same EID, or the same
\* non-empty DOI, at most one is appended.
C3_SeenWithinRun ==
    (Merged /\ runs = 1) =>
        LET rs == results.list
        IN  \A i, j \in DOMAIN rs :
                i < j =>
                    /\ (RecEid(rs[i]) # <<>> /\ RecEid(rs[i]) = RecEid(rs[j]))
                          => CountEid(updated, RecEid(rs[i])) - CountEid(df, RecEid(rs[i])) <= 1
                    /\ (RecDoi(rs[i]) # <<>> /\ RecDoi(rs[i]) = RecDoi(rs[j]))
                          => CountDoi(updated, RecDoi(rs[i])) - CountDoi(df, RecDoi(rs[i])) <= 1

Flagged(row) == row.Duplicate_DOI = "YES"

FlagsCorrect(store) ==
    \A i \in DOMAIN store.rows : Flagged(store.rows[i]) <=> IsDup(store.rows, i)

NoRepeatedIdentifiers(rs) ==
    \A i, j \in DOMAIN rs :
        i < j => /\ RecEid(rs[i]) # RecEid(rs[j])
                 /\ (RecDoi(rs[i]) = <<>> \/ RecDoi(rs[i]) # RecDoi(rs[j]))

\* C4 as claimed: in the store returned by the merge every row is flagged
\* if and only if its non-empty DOI_clean occurs on at least two rows.  It is
\* stated for fetch results in which no identifier repeats, where the rows
\* that C1 and C3 are about do not arise.
C4_FlagIffDuplicate ==
    (Merged /\ NoRepeatedIdentifiers(results.list)) => FlagsCorrect(updated)

\* C4 as amended: for a store that has the "Duplicate DOI" column, (a) a merge
\* that added a row leaves every row whose non-empty DOI_clean occurs on at
\* least two rows flagged, and (b) if the flags of the input store were
\* correct, so are the flags of the returned store.
C4_FlagsMarkedAndPreserved ==
    (Merged /\ df.hasDup) =>
        /\ added > 0 =>
              \A i \in DOMAIN updated.rows :
                  IsDup(updated.rows, i) => Flagged(updated.rows[i])
        /\ FlagsCorrect(df) => FlagsCorrect(updated)

\* a merge into a correctly flagged store added rows that duplicate a DOI
C4_Witness ==
    /\ Merged /\ df.hasDup /\ FlagsCorrect(df) /\ added > 0
    /\ \E i \in DOMAIN updated.rows :
          /\ updated.rows[i].Status = "NEW"
          /\ IsDup(updated.rows, i)
          /\ Flagged(updated.rows[i])

----------------------------------------------------------------------------
(* Properties of the window, under SpecPlan *)

Planned == pc = "search"

ValidTs(cell) == cell # NaT /\ cell # BadDate

HasTimestamp(store) == \E i \in DOMAIN store.rows : ValidTs(store.rows[i].Added_to_db)

\* t is the latest ingestion timestamp of the store
IsLastTimestamp(store, t) ==
    /\ \E i \in DOMAIN store.rows : store.rows[i].Added_to_db = t /\ ValidTs(t)
    /\ \A i \in DOMAIN store.rows :
          ValidTs(store.rows[i].Added_to_db) => store.rows[i].Added_to_db <= t

Stamps(store) == { store.rows[i].Added_to_db : i \in DOMAIN store.rows }

\* C5 as claimed: whatever the store and today, the window has start < end.
C5_WindowNonEmpty == Planned => start < end

\* C5 as amended: the window has start < end exactly when no ingestion
\* timestamp of the store is dated later than today + OVERLAP_DAYS (in
\* particular when the store has no timestamp, or none later than today); for
\* a later one the window is empty.
C5_WindowNonEmptyIff ==
    Planned =>
        (start < end <=>
            \A t \in Stamps(df) : ValidTs(t) => DateOf(t) <= today + OVERLAP_DAYS)

\* the latest timestamp is dated exactly today + OVERLAP_DAYS
C5_Witness ==
    /\ Planned /\ start < end /\ end - start = 1
    /\ \E t \in Stamps(df) : IsLastTimestamp(df, t) /\ DateOf(t) = today + OVERLAP_DAYS

\* C6: with last ingestion timestamp T the window starts OVERLAP_DAYS before
\* the date of T (so not after T) and ends at today + 1 (so after today);
\* with no ingestion timestamp the window is [today - 1, today + 1).
C6_WindowBounds ==
    Planned =>
        /\ end = today + 1
        /\ end > today
        /\ \A t \in Stamps(df) :
              IsLastTimestamp(df, t) =>
                  (start = DateOf(t) - OVERLAP_DAYS /\ Timestamp(start) <= t)
        /\ ~HasTimestamp(df) => (start = today - 1 /\ end - start >= 1)

\* two rows with different timestamps, the later one first, and a window
\* that starts before today
C6_Witness ==
    /\ Planned
    /\ Len(df.rows) = 2
    /\ ValidTs(df.rows[1].Added_to_db) /\ ValidTs(df.rows[2].Added_to_db)
    /\ DateOf(df.rows[1].Added_to_db) > DateOf(df.rows[2].Added_to_db)
    /\ start = DateOf(df.rows[1].Added_to_db) - OVERLAP_DAYS
    /\ start < today

----------------------------------------------------------------------------
(* Properties of the fetch and of the run, under Spec *)

Returned == pc \in {"merge", "save", "done"}

\* the loop is past bucket day (or the run is over)
BucketDone(day) == Returned \/ (pc = "bucket" /\ d > day)

IsTop(q) == q.year = 0
IsSub(q) == q.year # 0

RECURSIVE ConcatRes(_)
ConcatRes(log) == IF log = <<>> THEN <<>> ELSE Head(log).res \o ConcatRes(Tail(log))

\* number of records returned by the queries before the i-th
Offset(i) == Len(ConcatRes(SubSeq(queries, 1, i - 1)))

SubQueriesOf(day, year) ==
    { i \in DOMAIN queries : queries[i].day = day /\ queries[i].year = year }

\* bucket day was subdivided into exactly the years lo .. hi, once each
ExactlyYears(day, lo, hi) ==
    /\ \A y \in lo .. hi : Cardinality(SubQueriesOf(day, y)) = 1
    /\ \A i \in DOMAIN queries :
          (queries[i].day = day /\ IsSub(queries[i])) => queries[i].year \in lo .. hi

\* the records of the i-th query are in the returned list, at their place
Included(i) ==
    SubSeq(results.list, Offset(i) + 1, Offset(i) + Len(queries[i].res)) = queries[i].res

\* C7 as claimed: a bucket that entered the fallback is subdivided into
\* exactly the years 2000 .. current_year + 1, current_year being the year of
\* today, and every result of a successful sub-query is in the output.
C7_FallbackYearsOfToday ==
    \A i \in DOMAIN queries :
        (queries[i].outcome = "fallback" /\ BucketDone(queries[i].day)) =>
            ExactlyYears(queries[i].day, FirstFallbackYear, YearOf(today) + 1)

\* C7 as amended: a bucket that entered the fallback is subdivided into
\* exactly the years 2000 .. Y + 1, once each, Y being the year of the day
\* after today (current_year, except on 31 December: current_year + 1); and
\* when the fetch returns, every result of a successful sub-query is in the
\* returned list.
C7_FallbackYearsOfEnd ==
    /\ \A i \in DOMAIN queries :
          (queries[i].outcome = "fallback" /\ BucketDone(queries[i].day)) =>
              ExactlyYears(queries[i].day, FirstFallbackYear, YearOf(today + 1) + 1)
    /\ Returned =>
          \A i \in DOMAIN queries :
              (IsSub(queries[i]) /\ queries[i].outcome = "ok") => Included(i)

\* on 31 December a bucket fell back, and the sub-query for the year after
\* next returned records
C7_Witness ==
    /\ Returned
    /\ YearOf(today + 1) = YearOf(today) + 1
    /\ \E i \in DOMAIN queries :
          /\ queries[i].year = YearOf(today) + 2
          /\ queries[i].outcome = "ok"
          /\ queries[i].res # <<>>
          /\ Offset(i) > 0

CapMessage(e) == e.capMsg

CapClass(e) ==
    \/ e.type = "Scopus400Error"
    \/ (e.type = "ScopusQueryError" /\ e.capMsg)

\* the i-th query ended the fetch: nothing was queried after it and no list
\* was returned
AbortedAt(i) == i = Len(queries) /\ pc = "aborted" /\ results = NotYet

\* C8 as claimed: an error on a top-level query that is not a cap-exceeded
\* condition (its message does not report too many results) aborts the fetch
\* at once; the fallback is entered only for a cap-exceeded condition.
C8_OnlyCapFallsBack ==
    \A i \in DOMAIN queries :
        (IsTop(queries[i]) /\ queries[i].outcome # "ok") =>
            /\ ~CapMessage(queries[i].exc) => (queries[i].outcome = "fatal" /\ AbortedAt(i))
            /\ queries[i].outcome = "fallback" => CapMessage(queries[i].exc)

\* C8 as amended: an error on a top-level query that is neither a
\* Scopus400Error nor a ScopusQueryError whose message contains "exceeds the
\* maximum number" aborts the fetch at once: no sub-query for that bucket, no
\* later bucket, no list returned.  The fallback is entered only for a
\* Scopus400Error (whatever its message) or a ScopusQueryError with that
\* message.
C8_OnlyCapClassFallsBack ==
    \A i \in DOMAIN queries :
        (IsTop(queries[i]) /\ queries[i].outcome # "ok") =>
            /\ ~CapClass(queries[i].exc) => (queries[i].outcome = "fatal" /\ AbortedAt(i))
            /\ queries[i].outcome = "fallback" => CapClass(queries[i].exc)

\* a ScopusQueryError without the cap message ended a fetch that had already
\* collected records and had buckets left
C8_Witness ==
    /\ pc = "aborted"
    /\ queries # <<>>
    /\ LET q == queries[Len(queries)]
       IN  /\ IsTop(q) /\ q.outcome = "fatal"
           /\ q.exc.type = "ScopusQueryError" /\ ~q.exc.capMsg
           /\ q.day + 1 < end
    /\ all_results # <<>>

\* the query that follows a sub-query for (day, year)
FollowsSub(day, year, nextDay, nextYear) ==
    IF year < YearOf(today + 1) + 1
    THEN nextDay = day /\ nextYear = year + 1
    ELSE nextDay = day + 1 /\ nextYear = 0

\* C9: an error of any kind on a per-year sub-query does not abort the fetch:
\* the next year of the bucket, or after the last year the next bucket, is
\* queried next, the failed year is not queried again, and the records
\* collected before it stay in the list.
C9_SubQueryErrorContained ==
    \A i \in DOMAIN queries :
        (IsSub(queries[i]) /\ queries[i].outcome = "err") =>
            /\ pc # "aborted" \/ i < Len(queries)
            /\ Cardinality(SubQueriesOf(queries[i].day, queries[i].year)) = 1
            /\ i < Len(queries) =>
                  FollowsSub(queries[i].day, queries[i].year,
                             queries[i + 1].day, queries[i + 1].year)
            /\ (i = Len(queries) /\ pc = "bucket") =>
                  FollowsSub(queries[i].day, queries[i].year, d,
                             IF fb = 0 THEN 0 ELSE fallback_years(end)[fb])
            /\ SubSeq(all_results, 1, Offset(i)) = ConcatRes(SubSeq(queries, 1, i - 1))
            /\ Returned => results = Assigned(ConcatRes(queries))

\* a sub-query that itself exceeded the cap, with records collected before
\* it and after it, in a fetch that returned
C9_Witness ==
    /\ Returned
    /\ \E i \in DOMAIN queries :
          /\ IsSub(queries[i]) /\ queries[i].outcome = "err"
          /\ queries[i].exc.capMsg
          /\ Offset(i) > 0
          /\ Len(results.list) > Offset(i)
          /\ \E j \in DOMAIN queries : j > i /\ IsTop(queries[j])

\* C10: the store is saved at most once, only by a run whose credential
\* check, load, fetch and merge all succeeded; a run that aborted never
\* saved, and nothing but save_db changes the persisted store.
C10_SaveOnlyAfterSuccess ==
    /\ [](/\ saves <= 1
          /\ pc = "aborted" => saves = 0
          /\ saves = 1 => /\ pc = "done" /\ cred /\ fileExists
                          /\ results.set /\ runs = 1
                          /\ disk = updated)
    /\ [][disk' # disk => (pc = "save" /\ pc' = "done" /\ saves = 0)]_vars

\* a fetch that had collected records aborted, and nothing was saved
C10_Witness ==
    /\ pc = "aborted"
    /\ all_results # <<>>
    /\ saves = 0
    /\ disk = df

----------------------------------------------------------------------------
(* The novelty rule and the added count, under SpecMerge *)

TrimmedEids(store) ==
    { Strip(store.rows[i].EID) : i \in { j \in DOMAIN store.rows : store.rows[j].EID # NA } }

TrimmedDois(store) ==
    { Strip(store.rows[i].DOI_clean) :
        i \in { j \in DOMAIN store.rows : store.rows[j].DOI_clean # NA } }

\* the novelty rule of the claim, for the record at place i of the fetch result
Novel(store, rs, i) ==
    LET eid == Strip(IF rs[i].eid = None THEN <<>> ELSE rs[i].eid)
        doi == Strip(IF rs[i].doi = None THEN <<>> ELSE rs[i].doi)
    IN  /\ eid # <<>>
        /\ eid \notin TrimmedEids(store)
        /\ doi = <<>> \/ doi \notin TrimmedDois(store)

NovelPlaces(store, rs) == { i \in DOMAIN rs : Novel(store, rs, i) }

\* C11: a fetched record is appended if and only if its EID is non-empty and
\* not in the store's trimmed EID set and its DOI is empty or not in the
\* store's trimmed DOI set: for every EID the store gains as many rows as
\* there are such records with that EID, and the reported count is their
\* number.
C11_NoveltyRule ==
    Merged =>
        /\ added = Cardinality(NovelPlaces(df, results.list))
        /\ Len(updated.rows) = Len(df.rows) + added
        /\ \A i \in DOMAIN results.list :
              LET e == RecEid(results.list[i])
              IN  e # <<>> =>
                    CountEid(updated, e) - CountEid(df, e) =
                        Cardinality({ j \in NovelPlaces(df, results.list) :
                                        RecEid(results.list[j]) = e })

\* a store holding one EID, merged with a record of that EID and a record of
\* another one, gained exactly one row
C11_Witness ==
    /\ Merged /\ runs = 1
    /\ Len(df.rows) = 1 /\ HasEid(df.rows[1])
    /\ Len(results.list) = 2
    /\ RecEid(results.list[1]) = Strip(df.rows[1].EID)
    /\ RecEid(results.list[2]) \notin {<<>>, Strip(df.rows[1].EID)}
    /\ added = 1
    /\ Len(updated.rows) = 2
    /\ CountEid(updated, RecEid(results.list[2])) = 1

\* C17: when no fetched record is novel (none fetched, or every one skipped)
\* the merge returns the input store as it is, rows, order and flags, and the
\* reported count is 0.
C17_NothingNovelNothingChanged ==
    (Merged /\ NovelPlaces(df, results.list) = {}) => (updated = df /\ added = 0)

\* records were fetched, all were skipped, and the store, which has two
\* unflagged rows with the same DOI, came back as it was
C17_Witness ==
    /\ Merged /\ runs = 1
    /\ results.list # <<>>
    /\ NovelPlaces(df, results.list) = {}
    /\ df.hasDup
    /\ \E i \in DOMAIN df.rows : IsDup(df.rows, i) /\ df.rows[i].Duplicate_DOI # "YES"
    /\ updated = df

----------------------------------------------------------------------------
(* Ordering and frame of the merge, under SpecOrder *)

HasTs(row) == row.Added_to_db # NaT /\ row.Added_to_db # BadDate

SameTs(x, y) == HasTs(x) = HasTs(y) /\ (HasTs(x) => x.Added_to_db = y.Added_to_db)

\* x has to come before y: by ingestion timestamp descending, rows without
\* one last, ties broken by publication year descending (two years are
\* compared when both are numbers or both are text)
ClaimedBefore(x, y) ==
    \/ HasTs(x) /\ ~HasTs(y)
    \/ HasTs(x) /\ HasTs(y) /\ x.Added_to_db > y.Added_to_db
    \/ SameTs(x, y) /\ x.Year.k # "na" /\ x.Year.k = y.Year.k /\ x.Year.v > y.Year.v

\* the same, and among rows with the same timestamp a row with a year comes
\* before a row without
SortedBefore(x, y) ==
    \/ ClaimedBefore(x, y)
    \/ SameTs(x, y) /\ x.Year.k # "na" /\ y.Year.k = "na"

\* C12 as claimed: whatever the store and the fetched records, the rows of
\* the returned store are ordered by ingestion timestamp descending, ties
\* broken by publication year descending, rows without timestamp last.
C12_AlwaysOrdered ==
    Merged =>
        \A i, j \in DOMAIN updated.rows :
            i < j => ~ClaimedBefore(updated.rows[j], updated.rows[i])

\* C12 as amended: in the store returned by a merge that added at least one
\* row, the rows are ordered by ingestion timestamp descending, every row
\* without a timestamp after every row with one; among rows with the same
\* timestamp a greater year comes before a smaller one of the same cell type
\* (both numbers or both text), and rows without a year come last.
C12_OrderedWhenRowsAdded ==
    (Merged /\ added > 0) =>
        \A i, j \in DOMAIN updated.rows :
            i < j => ~SortedBefore(updated.rows[j], updated.rows[i])

\* a store whose first row had no timestamp came back as: today's new row,
\* an older row, the row without timestamp
C12_Witness ==
    /\ Merged /\ added = 1
    /\ Len(df.rows) = 2 /\ df.rows[1].Added_to_db = NaT /\ HasTs(df.rows[2])
    /\ Len(updated.rows) = 3
    /\ updated.rows[1].Added_to_db = Timestamp(today)
    /\ HasTs(updated.rows[2]) /\ updated.rows[2].Added_to_db < Timestamp(today)
    /\ updated.rows[3].Added_to_db = NaT

\* what C13 holds fixed of a row: EID, DOI and ingestion timestamp (the
\* timestamp the cell parses to, NaT for a cell that parses to none)
Ident(row) == <<row.EID, row.DOI_clean, ToDatetime(row.Added_to_db)>>

CountIdent(rows, t) == Cardinality({ i \in DOMAIN rows : Ident(rows[i]) = t })

Idents(rows) == { Ident(rows[i]) : i \in DOMAIN rows }

StampedToday(rows) ==
    Cardinality({ i \in DOMAIN rows : ToDatetime(rows[i].Added_to_db) = Timestamp(today) })

\* C13: the merge deletes no row of the input store and changes no row's EID,
\* DOI or ingestion timestamp: every (EID, DOI, timestamp) of the input
\* store is in the output store at least as many times, whatever is there
\* more often is stamped with today, and the output store has exactly
\* `added` more rows stamped with today than the input store.
C13_RowsKept ==
    Merged =>
        /\ \A t \in Idents(df.rows) \cup Idents(updated.rows) :
              /\ CountIdent(updated.rows, t) >= CountIdent(df.rows, t)
              /\ CountIdent(updated.rows, t) > CountIdent(df.rows, t) => t[3] = Timestamp(today)
        /\ StampedToday(updated.rows) = StampedToday(df.rows) + added

\* a store with a row already stamped today and a row whose cell parses to
\* no timestamp gained a row and was sorted
C13_Witness ==
    /\ Merged /\ added = 1
    /\ Len(df.rows) = 2
    /\ df.rows[1].Added_to_db = BadDate /\ df.rows[1].EID = <<"b", " ">>
    /\ df.rows[2].Added_to_db = Timestamp(today)
    /\ StampedToday(updated.rows) = 2
    /\ updated.rows[3].EID = <<"b", " ">> /\ updated.rows[3].DOI_clean = <<"x">>

\* the rows the merge appended: the input stores of SpecOrder hold rows of
\* status 'OLD' only
Appended == { i \in DOMAIN updated.rows : updated.rows[i].Status = "NEW" }

NoLaterThan(store, day) ==
    \A i \in DOMAIN store.rows :
        HasTs(store.rows[i]) => DateOf(ToDatetime(store.rows[i].Added_to_db)) <= day

\* C14: the merge appends `added` rows, each with inclusion flag 'YES',
\* status 'NEW', the trimmed EID of a novel record of the fetch and ingestion
\* timestamp today; and when at least one row was added to a store with no
\* ingestion timestamp of a later day than today, the latest ingestion date of
\* the returned store is today.
C14_AppendedRows ==
    Merged =>
        /\ Cardinality(Appended) = added
        /\ \A i \in Appended :
              /\ updated.rows[i].PAW = "YES"
              /\ updated.rows[i].Added_to_db = Timestamp(today)
              /\ \E k \in NovelPlaces(df, results.list) :
                    updated.rows[i].EID = Strip(results.list[k].eid)
        /\ (added > 0 /\ NoLaterThan(df, today)) => get_last_added_date(updated) = today

\* a store whose latest timestamp was yesterday's gained the row of record
\* 'c ' and its latest ingestion date became today
C14_Witness ==
    /\ Merged /\ added = 1
    /\ df.rows # <<>> /\ get_last_added_date(df) = today - 1
    /\ get_last_added_date(updated) = today
    /\ \E i \in Appended : updated.rows[i].EID = <<"c">>
    /\ \E k \in DOMAIN results.list : results.list[k].eid = <<"c", " ">>

----------------------------------------------------------------------------
(* The day buckets of scopus_daily_search, under Spec *)

TopQueries == SelectSeq(queries, IsTop)

\* C15: when scopus_daily_search has returned, its top-level queries are one
\* per day of [start, end), in increasing order of the day, each for the
\* seconds from the midnight of its day to the next midnight, so that each
\* bucket ends where the next begins, the first begins with start and the
\* last ends with end; the queries were made in bucket order, the sub-queries
\* of a bucket after its top-level query; and the returned list is the
\* concatenation of what the queries returned, in the order they were made,
\* with every record kept as often as it was returned.
C15_OneBucketPerDay ==
    Returned =>
        /\ Len(TopQueries) = (IF end > start THEN end - start ELSE 0)
        /\ \A i \in DOMAIN TopQueries :
              /\ TopQueries[i].day = start + (i - 1)
              /\ TopQueries[i].q.bef = TopQueries[i].q.aft + 86400
              /\ i < Len(TopQueries) => TopQueries[i].q.bef = TopQueries[i + 1].q.aft
        /\ TopQueries # <<>> =>
              /\ TopQueries[1].q.aft = (start - 719163) * 86400
              /\ TopQueries[Len(TopQueries)].q.bef = (end - 719163) * 86400
        /\ \A i, j \in DOMAIN queries : i < j => queries[i].day <= queries[j].day
        /\ \A i \in DOMAIN queries :
              IsSub(queries[i]) =>
                  \E k \in 1 .. (i - 1) :
                      /\ IsTop(queries[k]) /\ queries[k].day = queries[i].day
                      /\ queries[k].q = queries[i].q
        /\ results.list = ConcatRes(queries)
        /\ \A r \in {RecA, RecB} :
              Cardinality({ i \in DOMAIN results.list : results.list[i] = r })
                  = Cardinality({ i \in DOMAIN queries :
                                    \E k \in DOMAIN queries[i].res : queries[i].res[k] = r })

\* a window of three days or more was searched: one bucket fell back and a
\* sub-query returned records, a later bucket returned the same records, and
\* the list holds them twice
C15_Witness ==
    /\ Returned
    /\ end - start >= 3
    /\ \E i, j \in DOMAIN queries :
          /\ i < j
          /\ IsSub(queries[i]) /\ queries[i].res = <<RecA, RecB>>
          /\ IsTop(queries[j]) /\ queries[j].res = <<RecA, RecB>>
    /\ results.list = <<RecA, RecB, RecA, RecB>>

----------------------------------------------------------------------------
(* Successive runs, under SpecRuns *)

\* a run after the first has computed its window
PlannedAgain == Planned /\ runs >= 1

\* C16 as claimed: the window of every run after the first starts no later
\* than the window of the run before it ended (here only for stores that hold
\* no timestamp of a later day than the run's today).
C16_WindowsMeet == (PlannedAgain /\ NoLaterThan(df, today)) => start <= prevEnd

\* C16 as amended: the window of a run after the first starts no later than
\* the window of the run before it ended if and only if either the store the
\* run loads has an ingestion timestamp and the date of its latest one is at
\* most OVERLAP_DAYS days after that end, or the store has no ingestion
\* timestamp and the run's today is at most one day after that end (the run
\* is at most two days after the previous one).
C16_WindowsMeetIff ==
    PlannedAgain =>
        (start <= prevEnd
            <=> \/ \E i \in DOMAIN df.rows :
                      /\ IsLastTimestamp(df, df.rows[i].Added_to_db)
                      /\ DateOf(df.rows[i].Added_to_db) <= prevEnd + OVERLAP_DAYS
                \/ ~HasTimestamp(df) /\ today <= prevEnd + 1)

\* the run before added rows, this run comes three days later and its window
\* starts before the previous window ended
C16_Witness ==
    /\ PlannedAgain
    /\ today = prevEnd + 2
    /\ Len(df.rows) >= 2
    /\ last = prevEnd - 1
    /\ start = prevEnd - 1 - OVERLAP_DAYS

====
